---- MODULE Spec2Model ----
(***************************************************************************)
(* Model of zschema's leaves.py (Python 2): the catalog of leaf classes,   *)
(* attribute lookup along the class hierarchy, Leaf.validate with its      *)
(* class check and per-class _validate rule, and the schema exporters.     *)
(*                                                                         *)
(* Native values are records [cls, v]: cls is the name of type(value) and  *)
(* v the payload.  Text payloads are sequences of one-character strings.   *)
(* Integer payloads are arbitrary-precision, as Python's are: a sign and   *)
(* a little-endian sequence of bits without leading zeros.                 *)
(***************************************************************************)
EXTENDS Integers, Sequences, FiniteSets, TLC

\* Longest generated text value (sample texts below are longer).
MaxStrLen == 1
\* Generated integers range over -MaxSmallInt..MaxSmallInt (plus the samples).
MaxSmallInt == 1

(***************************************************************************)
(* Python integers: int and long arithmetic on exact values.               *)
(***************************************************************************)
RECURSIVE NatBits(_)
NatBits(n) == IF n = 0 THEN <<>> ELSE <<n % 2>> \o NatBits(n \div 2)

\* An integer literal small enough to write in TLA+.
PyNum(n) ==
    IF n < 0 THEN [neg |-> TRUE, mag |-> NatBits(-n)]
    ELSE [neg |-> FALSE, mag |-> NatBits(n)]

Bit(m, i) == IF i <= Len(m) THEN m[i] ELSE 0

RECURSIVE Trim(_)
Trim(m) ==
    IF m = <<>> THEN m
    ELSE IF m[Len(m)] = 0 THEN Trim(SubSeq(m, 1, Len(m) - 1)) ELSE m

RECURSIVE AddFrom(_, _, _, _)
AddFrom(a, b, i, c) ==
    IF i > Len(a) /\ i > Len(b) THEN (IF c = 1 THEN <<1>> ELSE <<>>)
    ELSE LET s == Bit(a, i) + Bit(b, i) + c
         IN  <<s % 2>> \o AddFrom(a, b, i + 1, s \div 2)

MagAdd(a, b) == AddFrom(a, b, 1, 0)

RECURSIVE SubFrom(_, _, _, _)
SubFrom(a, b, i, br) ==
    IF i > Len(a) THEN <<>>
    ELSE LET d == Bit(a, i) - Bit(b, i) - br
         IN  <<(d + 2) % 2>> \o SubFrom(a, b, i + 1, IF d < 0 THEN 1 ELSE 0)

\* a - b for magnitudes with a >= b
MagSub(a, b) == Trim(SubFrom(a, b, 1, 0))

RECURSIVE CmpFrom(_, _, _)
CmpFrom(a, b, i) ==
    IF i = 0 THEN 0
    ELSE IF a[i] > b[i] THEN 1
    ELSE IF a[i] < b[i] THEN -1
    ELSE CmpFrom(a, b, i - 1)

MagCmp(a, b) ==
    IF Len(a) > Len(b) THEN 1
    ELSE IF Len(a) < Len(b) THEN -1
    ELSE CmpFrom(a, b, Len(a))

\* 2 ** n
py_pow2(n) == [neg |-> FALSE, mag |-> [i \in 1..(n + 1) |-> IF i = n + 1 THEN 1 ELSE 0]]

\* unary minus
py_neg(x) == IF x.mag = <<>> THEN x ELSE [neg |-> ~x.neg, mag |-> x.mag]

\* x + y
py_add(x, y) ==
    IF x.neg = y.neg THEN [neg |-> x.neg, mag |-> MagAdd(x.mag, y.mag)]
    ELSE LET c == MagCmp(x.mag, y.mag)
         IN  IF c = 0 THEN [neg |-> FALSE, mag |-> <<>>]
             ELSE IF c > 0 THEN [neg |-> x.neg, mag |-> MagSub(x.mag, y.mag)]
             ELSE [neg |-> y.neg, mag |-> MagSub(y.mag, x.mag)]

\* x - y
py_sub(x, y) == py_add(x, py_neg(y))

\* cmp(x, y): -1, 0 or 1
py_cmp(x, y) ==
    IF x.neg /\ ~y.neg THEN -1
    ELSE IF ~x.neg /\ y.neg THEN 1
    ELSE IF x.neg THEN MagCmp(y.mag, x.mag)
    ELSE MagCmp(x.mag, y.mag)

\* x > y
py_gt(x, y) == py_cmp(x, y) > 0

\* x < y
py_lt(x, y) == py_cmp(x, y) < 0

(***************************************************************************)
(* Native values.                                                          *)
(***************************************************************************)
PyStr(chars) == [cls |-> "str", v |-> chars]

PyUnicode(chars) == [cls |-> "unicode", v |-> chars]

PyFloat(repr) == [cls |-> "float", v |-> repr]

PyBool(b) == [cls |-> "bool", v |-> b]

None == [cls |-> "NoneType", v |-> "None"]

\* sys.maxint of a 64-bit CPython 2 build: 2**63 - 1
sys_maxint == py_sub(py_pow2(63), PyNum(1))

\* The value of an integer literal or of int arithmetic: an int while it fits
\* the machine word, a long beyond it.
PyInt(x) ==
    IF py_gt(x, sys_maxint) \/ py_lt(x, py_sub(py_neg(sys_maxint), PyNum(1)))
    THEN [cls |-> "long", v |-> x]
    ELSE [cls |-> "int", v |-> x]

\* A long literal (10l) or the result of long arithmetic (2l**68).
PyLong(x) == [cls |-> "long", v |-> x]

\* type(value)
type(value) == value.cls

\* The code point standing for every non-ASCII character.
NonAscii == "U+00E9"

\* str(value): encoding a unicode object with the default (ascii) codec
\* raises UnicodeEncodeError when it holds a non-ASCII character; every other
\* kind of value modelled here has a str().
py_str_raises(value) ==
    /\ value.cls = "unicode"
    /\ \E i \in 1..Len(value.v) : value.v[i] = NonAscii

Digits == {"0", "1", "2", "3", "4", "5", "6", "7", "8", "9"}

HexChars == Digits \cup {"A", "B", "C", "D", "E", "F", "a", "b", "c", "d", "e", "f"}

\* \d{n} at position p of s
DigitsAt(s, p, n) == /\ p + n - 1 <= Len(s)
                     /\ \A i \in p..(p + n - 1) : s[i] \in Digits

\* a literal dot at position p of s
DotAt(s, p) == p <= Len(s) /\ s[p] = "."

\* re.compile('(\d{1,3}\.){3}\d{1,3}').match(s): a match anchored at the
\* start of s only; the string may go on after it.
IP_REGEX_match(s) ==
    \E a \in 1..3, b \in 1..3, c \in 1..3, d \in 1..3 :
        /\ DigitsAt(s, 1, a) /\ DotAt(s, 1 + a)
        /\ DigitsAt(s, 2 + a, b) /\ DotAt(s, 2 + a + b)
        /\ DigitsAt(s, 3 + a + b, c) /\ DotAt(s, 3 + a + b + c)
        /\ DigitsAt(s, 4 + a + b + c, d)

\* re.compile('[A-Fa-f0-9]+').match(s): one or more hex characters at the
\* start of s.
B64_REGEX_match(s) == \E n \in 1..Len(s) : \A i \in 1..n : s[i] \in HexChars

(***************************************************************************)
(* Example values of the catalog and further sample texts.                 *)
(***************************************************************************)
Txt_asdf == <<"a", "s", "d", "f">>

Txt_my_string == <<"m", "y", " ", "s", "t", "r", "i", "n", "g">>

Txt_ip_valid == <<"1", "4", "1", ".", "2", "1", "2", ".", "1", "2", "0", ".", "0">>

Txt_ip_out_of_range == <<"9", "9", "9", ".", "9", "9", "9", ".", "9", "9", "9", ".", "9", "9", "9">>

Txt_hex_valid == <<"0", "3", "F", "8", "7", "8", "2", "4">>

Txt_normal == <<"n", "o", "r", "m", "a", "l">>

Txt_date_valid == <<"W", "e", "d", " ", "J", "u", "l", " ", " ", "8", " ", "0", "8", ":", "5", "2", ":", "0", "1", " ", "E", "D", "T", " ", "2", "0", "1", "5">>

Txt_date_invalid == <<"W", "e", "d", " ", "D", "N", "E", " ", " ", "3", "5", " ", "0", "8", ":", "5", "2", ":", "0", "1", " ", "E", "D", "T", " ", "2", "0", "1", "5">>

Txt_im_a_string == <<"I", "'", "m", " ", "a", " ", "s", "t", "r", "i", "n", "g", "!">>

SampleTexts ==
    { Txt_asdf, Txt_my_string, Txt_ip_valid, Txt_ip_out_of_range, Txt_hex_valid,
      Txt_normal, Txt_date_valid, Txt_date_invalid, Txt_im_a_string,
      <<"1", ".", "1", ".", "1", ".", "1">>, <<"1", ".", "1", ".", "1", ".", "1", "z", "z">>, <<"1", ".", "1", ".", "1">>, <<"1", "2", "3", "4", ".", "1", ".", "1", ".", "1">>, <<"z", "1", ".", "1", ".", "1", ".", "1">>, <<"F", "z", "z">>, <<"z", "z", "F">> }

\* dateutil.parser.parse(value) of the external dateutil library, reduced to
\* whether it raises: it raises on anything that is not text (an int has
\* no read() and is no string) and on text it cannot read as a date.  Of the
\* texts of this model it reads the one timestamp.
dateutil_parse_raises(value) ==
    \/ value.cls # "str"
    \/ value.v # Txt_date_valid

(***************************************************************************)
(* The classes: each a record of its base class and of the attributes its  *)
(* own body defines.  Methods are named by "<Class>.<method>".             *)
(***************************************************************************)
VALID_ES_INDEX_TYPES == {"analyzed", "not_analyzed", "no"}

\* keys.Keyable, the key-formatting base class: its three formatting
\* methods and nothing else.
Keyable ==
    [ base |-> "object",
      dict |-> [ key_to_es     |-> "Keyable.key_to_es",
                 key_to_bq     |-> "Keyable.key_to_bq",
                 key_to_string |-> "Keyable.key_to_string" ] ]

\* The names "from keys import *" binds in the module: the class.
keys_star_names == {"Keyable"}

Leaf ==
    [ base |-> "Keyable",
      dict |-> [ to_es               |-> "Leaf.to_es",
                 to_bigquery         |-> "Leaf.to_bigquery",
                 to_string           |-> "Leaf.to_string",
                 print_indent_string |-> "Leaf.print_indent_string",
                 validate            |-> "Leaf.validate",
                 __init__            |-> "Leaf.__init__" ] ]

AnalyzedString ==
    [ base |-> "Leaf",
      dict |-> [ ES_TYPE        |-> "string",
                 BQ_TYPE        |-> "STRING",
                 ES_INDEX_TYPE  |-> "analyzed",
                 EXPECTED_CLASS |-> {"str"},
                 INVALID        |-> PyInt(PyNum(23)),
                 VALID          |-> PyStr(Txt_asdf) ] ]

String ==
    [ base |-> "Leaf",
      dict |-> [ ES_TYPE        |-> "string",
                 BQ_TYPE        |-> "STRING",
                 ES_INDEX_TYPE  |-> "not_analyzed",
                 EXPECTED_CLASS |-> {"str"},
                 INVALID        |-> PyInt(PyNum(23)),
                 VALID          |-> PyStr(Txt_asdf) ] ]

IPv4Address ==
    [ base |-> "Leaf",
      dict |-> [ ES_TYPE        |-> "ip",
                 BQ_TYPE        |-> "STRING",
                 EXPECTED_CLASS |-> {"str"},
                 IP_REGEX       |-> "(\\d{1,3}\\.){3}\\d{1,3}",
                 _is_ipv4_addr  |-> "IPv4Address._is_ipv4_addr",
                 _validate      |-> "IPv4Address._validate",
                 INVALID        |-> PyStr(Txt_my_string),
                 VALID          |-> PyStr(Txt_ip_valid) ] ]

Integer ==
    [ base |-> "Leaf",
      dict |-> [ ES_TYPE        |-> "integer",
                 BQ_TYPE        |-> "INTEGER",
                 EXPECTED_CLASS |-> {"int"},
                 INVALID        |-> PyInt(py_pow2(33)),
                 VALID          |-> PyInt(PyNum(234234252)),
                 BITS           |-> 32,
                 _validate      |-> "Integer._validate" ] ]

Byte ==
    [ base |-> "Integer",
      dict |-> [ ES_TYPE |-> "byte",
                 BITS    |-> 8,
                 INVALID |-> PyInt(py_add(py_pow2(8), PyNum(5))),
                 VALID   |-> PyInt(PyNum(34)) ] ]

Short ==
    [ base |-> "Integer",
      dict |-> [ ES_TYPE |-> "short",
                 BITS    |-> 16,
                 INVALID |-> PyInt(py_pow2(16)),
                 VALID   |-> PyInt(PyNum(65535)) ] ]

Long ==
    [ base |-> "Integer",
      dict |-> [ ES_TYPE        |-> "long",
                 BQ_TYPE        |-> "DOUBLE",
                 EXPECTED_CLASS |-> {"int", "long"},
                 INVALID        |-> PyLong(py_pow2(68)),
                 VALID          |-> PyLong(PyNum(10)),
                 BITS           |-> 64 ] ]

Float ==
    [ base |-> "Leaf",
      dict |-> [ ES_TYPE        |-> "float",
                 BQ_TYPE        |-> "DOUBLE",
                 EXPECTED_CLASS |-> {"float"},
                 INVALID        |-> PyStr(Txt_im_a_string),
                 VALID          |-> PyFloat(<<"1", "0", ".", "0">>) ] ]

Double ==
    [ base |-> "Float",
      dict |-> [ ES_TYPE |-> "double",
                 BQ_TYPE |-> "DOUBLE" ] ]

Boolean ==
    [ base |-> "Leaf",
      dict |-> [ ES_TYPE        |-> "boolean",
                 BQ_TYPE        |-> "BOOLEAN",
                 EXPECTED_CLASS |-> {"bool"},
                 INVALID        |-> PyInt(PyNum(0)),
                 VALID          |-> PyBool(TRUE) ] ]

Binary ==
    [ base |-> "Leaf",
      dict |-> [ ES_TYPE        |-> "binary",
                 BQ_TYPE        |-> "STRING",
                 ES_INDEX_TYPE  |-> "no",
                 EXPECTED_CLASS |-> {"str"},
                 B64_REGEX      |-> "[A-Fa-f0-9]+",
                 _is_base64     |-> "Binary._is_base64",
                 _validate      |-> "Binary._validate",
                 VALID          |-> PyStr(Txt_hex_valid),
                 INVALID        |-> PyStr(Txt_normal) ] ]

IndexedBinary ==
    [ base |-> "Binary",
      dict |-> [ ES_TYPE       |-> "binary",
                 BQ_TYPE       |-> "STRING",
                 ES_INDEX_TYPE |-> "not_analyzed" ] ]

DateTime ==
    [ base |-> "Leaf",
      dict |-> [ ES_TYPE        |-> "datetime",
                 BQ_TYPE        |-> "TIMESTAMP",
                 EXPECTED_CLASS |-> {"str", "int"},
                 VALID          |-> PyStr(Txt_date_valid),
                 INVALID        |-> PyStr(Txt_date_invalid),
                 _validate      |-> "DateTime._validate" ] ]

VALID_LEAVES ==
    << "DateTime", "AnalyzedString", "String", "Binary", "IndexedBinary",
       "Boolean", "Double", "Float", "Long", "Short", "Byte", "Integer",
       "IPv4Address" >>

\* The names bound at the top level of the module: its imports, its own
\* definitions and what the star import brings.
module_globals ==
    { "unittest", "re", "dateutil", "DataValidationException",
      "VALID_ES_INDEX_TYPES", "VALID_ES_ANALYZERS", "Leaf", "AnalyzedString",
      "String", "IPv4Address", "Integer", "Byte", "Short", "Long", "Float",
      "Double", "Boolean", "Binary", "IndexedBinary", "DateTime",
      "VALID_LEAVES", "LeafUnitTests" } \cup keys_star_names

\* The class object a class name is bound to.
ClassOf(c) ==
    CASE c = "Keyable"        -> Keyable
      [] c = "Leaf"           -> Leaf
      [] c = "AnalyzedString" -> AnalyzedString
      [] c = "String"         -> String
      [] c = "IPv4Address"    -> IPv4Address
      [] c = "Integer"        -> Integer
      [] c = "Byte"           -> Byte
      [] c = "Short"          -> Short
      [] c = "Long"           -> Long
      [] c = "Float"          -> Float
      [] c = "Double"         -> Double
      [] c = "Boolean"        -> Boolean
      [] c = "Binary"         -> Binary
      [] c = "IndexedBinary"  -> IndexedBinary
      [] c = "DateTime"       -> DateTime

\* hasattr(obj, attr) for an instance of class c that has no instance
\* attribute of that name: the attribute is looked up along the base classes.
RECURSIVE hasattr(_, _)
hasattr(c, attr) ==
    IF c = "object" THEN FALSE
    ELSE IF attr \in DOMAIN ClassOf(c).dict THEN TRUE
    ELSE hasattr(ClassOf(c).base, attr)

\* getattr(obj, attr), where hasattr(obj, attr)
RECURSIVE getattr(_, _)
getattr(c, attr) ==
    IF attr \in DOMAIN ClassOf(c).dict THEN ClassOf(c).dict[attr]
    ELSE getattr(ClassOf(c).base, attr)

\* cls.__name__.lower()
class_name_lower(c) ==
    CASE c = "AnalyzedString" -> "analyzedstring"
      [] c = "String"         -> "string"
      [] c = "IPv4Address"    -> "ipv4address"
      [] c = "Integer"        -> "integer"
      [] c = "Byte"           -> "byte"
      [] c = "Short"          -> "short"
      [] c = "Long"           -> "long"
      [] c = "Float"          -> "float"
      [] c = "Double"         -> "double"
      [] c = "Boolean"        -> "boolean"
      [] c = "Binary"         -> "binary"
      [] c = "IndexedBinary"  -> "indexedbinary"
      [] c = "DateTime"       -> "datetime"

(***************************************************************************)
(* Calls and their outcomes: a call returns a value or raises an exception *)
(* of some class.                                                          *)
(***************************************************************************)
Return(v) == [exc |-> "none", ret |-> v]

Raise(e) == [exc |-> e, ret |-> None]

\* Keyable.key_to_bq(name): the formatted name for the warehouse
key_to_bq(name) == <<"key_to_bq", name>>

\* Keyable.key_to_es(name): the formatted name for the search index
key_to_es(name) == <<"key_to_es", name>>

\* Keyable.key_to_string(name): the formatted name for display
key_to_string(name) == <<"key_to_string", name>>

\* IPv4Address._is_ipv4_addr
IPv4Address_is_ipv4_addr(ip) == IP_REGEX_match(ip.v)

\* IPv4Address._validate
IPv4Address_validate(c, name, value) ==
    IF ~IPv4Address_is_ipv4_addr(value) THEN Raise("DataValidationException")
    ELSE Return(None)

\* Integer._validate, shared by Byte, Short and Long, which set BITS
Integer_validate(c, name, value) ==
    LET max_ == py_sub(py_pow2(getattr(c, "BITS")), PyNum(1))
        min_ == py_add(py_neg(py_pow2(getattr(c, "BITS"))), PyNum(1))
    IN  IF py_gt(value.v, max_) THEN Raise("DataValidationException")
        ELSE IF py_lt(value.v, min_) THEN Raise("DataValidationException")
        ELSE Return(None)

\* Binary._is_base64
Binary_is_base64(data) == B64_REGEX_match(data.v)

\* Binary._validate, shared by IndexedBinary
Binary_validate(c, name, value) ==
    IF ~Binary_is_base64(value) THEN Raise("DataValidationException")
    ELSE Return(None)

\* DateTime._validate: whatever the parser raises is caught and replaced
DateTime_validate(c, name, value) ==
    IF dateutil_parse_raises(value) THEN Raise("DataValidationException")
    ELSE Return(None)

\* self._validate(name, value): the method the lookup finds, called
call_validate(c, name, value) ==
    LET m == getattr(c, "_validate")
    IN  CASE m = "IPv4Address._validate" -> IPv4Address_validate(c, name, value)
          [] m = "Integer._validate"     -> Integer_validate(c, name, value)
          [] m = "Binary._validate"      -> Binary_validate(c, name, value)
          [] m = "DateTime._validate"    -> DateTime_validate(c, name, value)

\* Leaf.validate.  The class-mismatch branch builds the exception from
\* self.key_to_string(name), self.EXPECTED_CLASS, str(value) and the class
\* name, and str(value) can itself raise.  The second branch evaluates the
\* argument key_to_string(name), a global name of the module, before the
\* call of self._validate.
Leaf_validate(slf, name, value) ==
    IF type(value) \notin getattr(slf.cls, "EXPECTED_CLASS")
    THEN IF ~hasattr(slf.cls, "key_to_string") THEN Raise("AttributeError")
         ELSE IF py_str_raises(value) THEN Raise("UnicodeEncodeError")
         ELSE Raise("DataValidationException")
    ELSE IF hasattr(slf.cls, "_validate")
         THEN IF "key_to_string" \notin module_globals THEN Raise("NameError")
              ELSE call_validate(slf.cls, key_to_string(name), value)
         ELSE Return(None)

\* Leaf.to_bigquery with the two modes exchanged
Leaf_to_bigquery_modes_swapped(slf, name) ==
    LET mode == IF slf.required THEN "NULLABLE" ELSE "REQUIRED"
    IN  Return([name |-> key_to_bq(name),
                type |-> getattr(slf.cls, "BQ_TYPE"),
                mode |-> mode])

\* Leaf.to_bigquery
Leaf_to_bigquery(slf, name) ==
    LET mode == IF slf.required THEN "REQUIRED" ELSE "NULLABLE"
    IN  Return([name |-> key_to_bq(name),
                type |-> getattr(slf.cls, "BQ_TYPE"),
                mode |-> mode])

\* Leaf.to_string
Leaf_to_string(slf, name) ==
    Return(<<key_to_string(name), ": ", class_name_lower(slf.cls)>>)

\* Leaf.to_es: the body is "pass"
Leaf_to_es(slf, name) == Return(None)

\* Leaf.__init__
Leaf_init(c, required) == [cls |-> c, required |-> required]

(***************************************************************************)
(* The inputs.                                                             *)
(***************************************************************************)
LeafClasses == {VALID_LEAVES[i] : i \in 1..Len(VALID_LEAVES)}

TextAlphabet == {"1", ".", "z"}

Texts == UNION {[1..k -> TextAlphabet] : k \in 0..MaxStrLen} \cup SampleTexts

UnicodeTexts == UNION {[1..k -> {"1", NonAscii}] : k \in 0..MaxStrLen}

IntegerBits == {getattr(c, "BITS") : c \in {"Integer", "Byte", "Short", "Long"}}

\* Small numbers and, for every bit width, the numbers at and next to the
\* limits of its range.
Numbers ==
    {PyNum(n) : n \in (-MaxSmallInt)..MaxSmallInt}
    \cup {py_pow2(b) : b \in IntegerBits}
    \cup {py_neg(py_pow2(b)) : b \in IntegerBits}
    \cup {py_sub(py_pow2(b), PyNum(1)) : b \in IntegerBits}
    \cup {py_add(py_neg(py_pow2(b)), PyNum(1)) : b \in IntegerBits}

Examples ==
    {getattr(c, "VALID") : c \in LeafClasses} \cup {getattr(c, "INVALID") : c \in LeafClasses}

Values ==
    {PyStr(t) : t \in Texts}
    \cup {PyUnicode(t) : t \in UnicodeTexts}
    \cup {PyInt(x) : x \in Numbers}
    \cup {PyLong(x) : x \in Numbers}
    \cup {PyFloat(<<"0", ".", "5">>), PyBool(TRUE), PyBool(FALSE), None}
    \cup Examples

\* Field names: one of a schema, and the class name the tests pass.
Names(slf) == {"age", slf.cls}

(***************************************************************************)
(* The state: one leaf instance and the last call made on it.              *)
(***************************************************************************)
VARIABLES self, call

vars == <<self, call>>

Init ==
    /\ \E c \in LeafClasses, required \in BOOLEAN : self = Leaf_init(c, required)
    /\ call = [op |-> "__init__", name |-> "", value |-> None, out |-> Return(None)]

validate ==
    \E name \in Names(self), value \in Values :
        /\ call' = [op |-> "validate", name |-> name, value |-> value,
                    out |-> Leaf_validate(self, name, value)]
        /\ UNCHANGED self

to_bigquery ==
    \E name \in Names(self) :
        /\ call' = [op |-> "to_bigquery", name |-> name, value |-> None,
                    out |-> Leaf_to_bigquery(self, name)]
        /\ UNCHANGED self

to_string ==
    \E name \in Names(self) :
        /\ call' = [op |-> "to_string", name |-> name, value |-> None,
                    out |-> Leaf_to_string(self, name)]
        /\ UNCHANGED self

to_es ==
    \E name \in Names(self) :
        /\ call' = [op |-> "to_es", name |-> name, value |-> None,
                    out |-> Leaf_to_es(self, name)]
        /\ UNCHANGED self

Next == validate \/ to_bigquery \/ to_string \/ to_es

Spec == Init /\ [][Next]_vars

(***************************************************************************)
(* The claims.                                                             *)
(***************************************************************************)
IntegerFamily == {"Integer", "Byte", "Short", "Long"}

Succeeds == call.out = Return(None)

RaisesValidationError == call.out.exc = "DataValidationException"

\* C1: for every leaf kind, validate of a value whose class is not among the
\* kind's accepted classes raises the validation error, whatever the value
\* holds.
C1_ClassMismatchRaises ==
    (call.op = "validate" /\ type(call.value) \notin getattr(self.cls, "EXPECTED_CLASS"))
        => RaisesValidationError

\* -2^bits + 1 <= x <= 2^bits - 1
InRange(bits, x) ==
    /\ ~py_lt(x, py_add(py_neg(py_pow2(bits)), PyNum(1)))
    /\ ~py_gt(x, py_sub(py_pow2(bits), PyNum(1)))

BitWidth(c) ==
    CASE c = "Integer" -> 32 [] c = "Byte" -> 8 [] c = "Short" -> 16 [] c = "Long" -> 64

\* C2: for an integer-family leaf and an integer of an accepted class,
\* validate succeeds if and only if -2^bitWidth + 1 <= value <= 2^bitWidth - 1.
C2_IntegerRange ==
    (/\ call.op = "validate"
     /\ self.cls \in IntegerFamily
     /\ type(call.value) \in getattr(self.cls, "EXPECTED_CLASS"))
        => (Succeeds <=> InRange(BitWidth(self.cls), call.value.v))

\* C3: for every leaf kind, validate(<kind name>, <the kind's VALID example>)
\* on a default-constructed instance completes without raising anything.
C3_ValidExamplePasses ==
    (/\ call.op = "validate"
     /\ ~self.required
     /\ call.name = self.cls
     /\ call.value = getattr(self.cls, "VALID"))
        => Succeeds

\* C4: for every leaf kind, validate(<kind name>, <the kind's INVALID example>)
\* on a default-constructed instance raises the validation error.
C4_InvalidExampleRaises ==
    (/\ call.op = "validate"
     /\ ~self.required
     /\ call.name = self.cls
     /\ call.value = getattr(self.cls, "INVALID"))
        => RaisesValidationError

\* The warehouse type tag of each leaf kind.
WarehouseType(c) ==
    CASE c \in {"AnalyzedString", "String", "IPv4Address", "Binary", "IndexedBinary"} -> "STRING"
      [] c \in {"Integer", "Byte", "Short"} -> "INTEGER"
      [] c \in {"Long", "Float", "Double"} -> "DOUBLE"
      [] c = "Boolean" -> "BOOLEAN"
      [] c = "DateTime" -> "TIMESTAMP"

\* C5: no call changes the instance (its required flag least of all), and
\* every to_bigquery(name) returns exactly the keys name, type and mode: the
\* formatted name, the kind's warehouse type tag, and "REQUIRED" if the
\* instance is required and "NULLABLE" otherwise.
C5_WarehouseFragment ==
    [][ /\ self' = self
        /\ (call'.op = "to_bigquery"
              => call'.out =
                   Return([name |-> key_to_bq(call'.name),
                           type |-> WarehouseType(self.cls),
                           mode |-> IF self.required THEN "REQUIRED" ELSE "NULLABLE"])) ]_vars

\* C5's case: a required Integer field named "age" exported as REQUIRED INTEGER
C5_Witness ==
    /\ call.op = "to_bigquery"
    /\ self = [cls |-> "Integer", required |-> TRUE]
    /\ call.name = "age"
    /\ DOMAIN call.out.ret = {"name", "type", "mode"}
    /\ call.out.ret.type = "INTEGER"
    /\ call.out.ret.mode = "REQUIRED"

\* a text starts with four groups of 1 to 3 digits separated by dots
StartsWithDottedQuad(s) ==
    \E n \in 7..Len(s) :
        LET dots == {i \in 1..n : s[i] = "."}
        IN  /\ Cardinality(dots) = 3
            /\ \A i \in (1..n) \ dots : s[i] \in Digits
            /\ \A i \in dots \cup {0} :
                   \E k \in 1..3 : /\ \A j \in (i + 1)..(i + k) : j <= n /\ j \notin dots
                                   /\ (i + k = n \/ i + k + 1 \in dots)

\* C6: for the IPv4Address leaf and every text value, validate succeeds if
\* and only if the text starts with a dotted quad of four groups of 1 to 3
\* digits; octets are not bounded and what follows is not examined.
C6_IPv4Pattern ==
    (call.op = "validate" /\ self.cls = "IPv4Address" /\ type(call.value) = "str")
        => (Succeeds <=> StartsWithDottedQuad(call.value.v))

\* C7: for Binary and IndexedBinary and every text value, validate succeeds
\* if and only if the text begins with a character of [A-Fa-f0-9].
C7_HexPrefix ==
    (call.op = "validate" /\ self.cls \in {"Binary", "IndexedBinary"} /\ type(call.value) = "str")
        => (Succeeds <=> (Len(call.value.v) >= 1 /\ call.value.v[1] \in HexChars))

\* C8: validate has exactly two outcomes: it returns nothing or it raises
\* the validation error; no other exception leaves it.
C8_OnlyValidationError ==
    call.op = "validate" => (Succeeds \/ call.out = Raise("DataValidationException"))

\* The index mode the catalog is said to give each leaf kind.
IndexMode(c) ==
    CASE c \in {"String", "IndexedBinary"} -> "not_analyzed"
      [] c = "Binary" -> "no"
      [] OTHER -> "analyzed"

\* C9: every leaf kind has an index mode, one of the three valid ones: the
\* kinds that do not set it have "analyzed", String and IndexedBinary
\* "not_analyzed", Binary "no", AnalyzedString "analyzed".
C9_IndexModeDefined ==
    /\ hasattr(self.cls, "ES_INDEX_TYPE")
    /\ getattr(self.cls, "ES_INDEX_TYPE") \in VALID_ES_INDEX_TYPES
    /\ getattr(self.cls, "ES_INDEX_TYPE") = IndexMode(self.cls)

\* C10: to_es(name) produces a fragment that carries the formatted field
\* name and exposes the kind's search type and index mode.
C10_SearchFragment ==
    call.op = "to_es"
        => /\ call.out.exc = "none"
           /\ call.out.ret # None
           /\ \E f \in DOMAIN call.out.ret : call.out.ret[f] = key_to_es(call.name)
           /\ \E f \in DOMAIN call.out.ret : call.out.ret[f] = getattr(self.cls, "ES_TYPE")
           /\ \E f \in DOMAIN call.out.ret : call.out.ret[f] = IndexMode(self.cls)

====
